---- MODULE Spec2Model ----
(***************************************************************************)
(* Model of the CH32V203 in-circuit programmer (src/src/ch32v203prog.c).   *)
(*                                                                         *)
(* The programmer is sequential code.  Its state is the position in the    *)
(* code (pc, stack), its locals, and the transport accesses it is in the   *)
(* middle of issuing (queue).  One transport access (rvswd_read or         *)
(* rvswd_write) is one step.  The target (debug module, two CPU registers, *)
(* the flash controller and the flash array) is simulated as far as the    *)
(* accesses of the code can tell.                                          *)
(*                                                                         *)
(* A 32-bit word is a pair <<hi, lo>> of 16-bit halves.                    *)
(***************************************************************************)
EXTENDS Integers, Sequences, FiniteSets, TLC

VARIABLES
    entry,       \* the function the caller invoked
    pc,          \* label of the next statement to execute
    stack,       \* return labels of the active calls, innermost first
    queue,       \* transport accesses issued by the current statement, not yet performed
    rval,        \* the value the last rvswd_read stored through its pointer
    ret,         \* return value of the last function that returned
    timeout,     \* local `timeout` of the CPU-control polling loops (0 outside them)
    addr,        \* write_flash: parameter addr
    data_len,    \* write_flash: parameter data_len (ch32_program: firmware_len)
    seed,        \* which firmware image the caller passed
    code_size,   \* run_debug_code: parameter code_size
    i,           \* write_flash: loop variable i
    blk,         \* erase_flash_block / write_flash_block: parameter addr
    wdata,       \* write_flash_block: local wdata[64]
    rdata,       \* write_flash_block: local rdata[], the words read back so far
    wi,          \* write_flash_block: loop variable i
    target,      \* the simulated chip
    faultsLeft,  \* transport failures the environment may still inject
    started,     \* ch32_program: the steps started so far, in order
    log,         \* the messages logged (ESP_LOGE / ESP_LOGI), in order
    wfLog,       \* write_flash: callbacks and block operations, in order
    obs          \* observations about the run (see ObsInit)

vars == <<entry, pc, stack, queue, rval, ret, timeout, addr, data_len, seed, code_size, i, blk,
          wdata, rdata, wi, target, faultsLeft, started, log, wfLog, obs>>

----------------------------------------------------------------------------
(* Bounds of the model *)

\* the image lengths tried are 0, 256, ..., MaxBlocks * 256
MaxBlocks == 2
\* number of different firmware images tried
NumSeeds == 2
\* longest time (in status polls) the simulated flash controller stays busy
MaxBusy == 1
\* the count of consecutive flash status polls saturates here
MaxWaitPolls == 8
\* the code sizes tried for ch32_run_debug_code are 0 .. MaxCodeSize
MaxCodeSize == 34

----------------------------------------------------------------------------
(* 32-bit words *)

Half == 2 ^ 16

Word(n) == <<n \div Half, n % Half>>

\* bit b (0..15) of a 16-bit half
HalfBit(h, b) == (h \div (2 ^ b)) % 2

\* bit b (0..31) of a word
WordBit(w, b) == IF b < 16 THEN HalfBit(w[2], b) ELSE HalfBit(w[1], b - 16)

RECURSIVE HalfAnd(_, _, _)
HalfAnd(a, b, n) ==
    IF n = 0 THEN 0
    ELSE (a % 2) * (b % 2) + 2 * HalfAnd(a \div 2, b \div 2, n - 1)

\* bitwise and of two words
WordAnd(v, w) ==
    IF v = <<65535, 65535>> THEN w
    ELSE IF w = <<65535, 65535>> THEN v
    ELSE <<HalfAnd(v[1], w[1], 16), HalfAnd(v[2], w[2], 16)>>

\* the word with bit b inverted
FlipBit(w, b) ==
    IF b < 16
    THEN <<w[1], IF HalfBit(w[2], b) = 1 THEN w[2] - 2 ^ b ELSE w[2] + 2 ^ b>>
    ELSE <<IF HalfBit(w[1], b - 16) = 1 THEN w[1] - 2 ^ (b - 16) ELSE w[1] + 2 ^ (b - 16), w[2]>>

\* memcpy of four bytes into a uint32_t on the little-endian host
BytesToWord(b0, b1, b2, b3) == <<b3 * 256 + b2, b1 * 256 + b0>>

----------------------------------------------------------------------------
(* Constants of the source *)

CH32_REG_DEBUG_DATA0 == 4
CH32_REG_DEBUG_DMCONTROL == 16
CH32_REG_DEBUG_DMSTATUS == 17
CH32_REG_DEBUG_COMMAND == 23
CH32_REG_DEBUG_PROGBUF0 == 32
CH32_REGS_GPR == 4096

CH32_CODE_BEGIN == 134217728
CH32_CODE_END == 134234112

CH32_FLASH_STATR == 1073881100
CH32_FLASH_CTLR == 1073881104
CH32_FLASH_ADDR == 1073881108

\* bit numbers of the flash status and control registers
CH32_FLASH_STATR_BUSY == 0
CH32_FLASH_STATR_WRBUSY == 1
CH32_FLASH_CTLR_STRT == 6
CH32_FLASH_CTLR_FTPG == 16
CH32_FLASH_CTLR_FTER == 17
CH32_FLASH_CTLR_PGSTRT == 21

\* the word with exactly bit b set
BitWord(b) == IF b < 16 THEN <<0, 2 ^ b>> ELSE <<2 ^ (b - 16), 0>>

\* a | b for words that share no set bit
WordOr(v, w) == <<v[1] + w[1], v[2] + w[2]>>

\* ctlr & 0x8080: the two lock bits of the flash control register
LockBits(w) == HalfBit(w[2], 7) = 1 \/ HalfBit(w[2], 15) = 1

\* the keys of each register written in the other order
UnlockKeys_Swapped ==
    << <<1073881092, <<52719, 35243>> >>, <<1073881092, <<17767, 291>> >>,
       <<1073881096, <<52719, 35243>> >>, <<1073881096, <<17767, 291>> >>,
       <<1073881124, <<52719, 35243>> >>, <<1073881124, <<17767, 291>> >> >>

\* the key registers and the two keys written by ch32_unlock_flash
UnlockKeys ==
    << <<1073881092, <<17767, 291>> >>, <<1073881092, <<52719, 35243>> >>,
       <<1073881096, <<17767, 291>> >>, <<1073881096, <<52719, 35243>> >>,
       <<1073881124, <<17767, 291>> >>, <<1073881124, <<52719, 35243>> >> >>

\* the two debug programs, as bytes
ch32_readmem == <<136, 65, 2, 144>>
ch32_writemem == <<136, 193, 2, 144>>

\* rvswd_result_t (rvswd.h of the transport component): RVSWD_OK is its first enumerator
RVSWD_OK == 0
RVSWD_FAIL == 1
\* C: false and true converted to an integer type
false == 0
true == 1

\* values written to the debug-module control register
DM_HALTREQ == <<32768, 1>>       \* 0x80000001
DM_CLEAR == <<0, 1>>             \* 0x00000001
DM_RESUMEREQ == <<16384, 1>>     \* 0x40000001
DM_RESETREQ == <<0, 3>>          \* 0x00000003
DM_ACKRESET == <<4096, 1>>       \* 0x10000001

----------------------------------------------------------------------------
(* The inputs *)

Seeds == 1 .. NumSeeds

\* byte k (from 0) of firmware image s
FirmwareByte(s, k) == (s * 16 + k + 3 * (k \div 256)) % 256

\* the image lengths tried
Lengths == {256 * n : n \in 0 .. MaxBlocks}

\* the base addresses write_flash is tried with
BaseAddrs ==
    {CH32_CODE_BEGIN, CH32_CODE_BEGIN + 256, CH32_CODE_BEGIN + 64,
     CH32_CODE_BEGIN + 32, CH32_CODE_BEGIN + 1}

\* image lengths that end inside a block
PartialLengths == {100, 356}

\* the addresses the block operations are tried with when called directly
BlockAddrs ==
    {CH32_CODE_BEGIN, CH32_CODE_BEGIN + 64, CH32_CODE_BEGIN + 255, CH32_CODE_BEGIN + 257}

\* the simulated part of the flash array: words from CH32_CODE_BEGIN on
FlashWords == (MaxBlocks + 1) * 64

\* values the debug-module status register may show
StatusValues == {<<0, 0>>, <<0, 768>>, <<0, 3072>>, <<3, 0>>, <<12, 0>>}

\* what a failed read may leave in the caller's variable
GarbageWords == {<<0, 0>>, <<65535, 65535>>}

\* bits a faulty flash read may invert, and the words of a block it may hit
FlipBits == {0, 31}
FlipWords == {0, 63}

\* a transport failure is injected anywhere outside the word loops of
\* ch32_write_flash_block and, inside them, while wi has one of these values
FaultWords == {0, 1, 64}

ErasedWord == <<65535, 65535>>
OldWord == <<0, 0>>

----------------------------------------------------------------------------
(* The simulated target *)

TargetInit(locked, stuck, erased, busyStuck) ==
    [ data0   |-> <<0, 0>>,
      progbuf |-> [j \in 1 .. 8 |-> <<0, 0>>],
      x10     |-> <<0, 0>>,
      x11     |-> <<0, 0>>,
      ctlr    |-> <<0, 0>>,
      lock    |-> locked,
      flock   |-> locked,
      keyr    |-> 0,
      modekeyr |-> 0,
      stuck   |-> stuck,
      faddr   |-> <<0, 0>>,
      pagebuf |-> [j \in 1 .. 64 |-> ErasedWord],
      flash   |-> [j \in 1 .. FlashWords |-> IF erased THEN ErasedWord ELSE OldWord],
      busy    |-> 0,
      wrbusy  |-> 0,
      busyStuck |-> busyStuck,
      flipped |-> FALSE ]

Unlocked(t) == ~t.lock /\ ~t.flock

InFlash(a) == a[1] = CH32_CODE_BEGIN \div Half /\ a[2] < FlashWords * 4 /\ a[2] % 4 = 0

FlashIndex(a) == a[2] \div 4 + 1

\* first index of the 256-byte page that holds address a
PageIndex(a) == (a[2] \div 256) * 64 + 1

\* the value a load from address a yields; f is the bit a faulty flash inverts, or -1
MemValue(t, a, f) ==
    IF a = Word(CH32_FLASH_STATR)
    THEN <<0, (IF t.busy > 0 \/ t.busyStuck THEN 1 ELSE 0) + (IF t.wrbusy > 0 THEN 2 ELSE 0)>>
    ELSE IF a = Word(CH32_FLASH_CTLR)
    THEN <<t.ctlr[1], t.ctlr[2] + (IF t.lock THEN 128 ELSE 0) + (IF t.flock THEN 32768 ELSE 0)>>
    ELSE IF InFlash(a)
    THEN IF f >= 0 /\ ~t.flipped THEN FlipBit(t.flash[FlashIndex(a)], f)
         ELSE t.flash[FlashIndex(a)]
    ELSE <<0, 0>>

\* the target after a load from address a
MemRead(t, a, f) ==
    LET v == MemValue(t, a, f) IN
    IF a = Word(CH32_FLASH_STATR)
    THEN [t EXCEPT !.x10 = v,
                   !.busy = IF @ > 0 THEN @ - 1 ELSE 0,
                   !.wrbusy = IF @ > 0 THEN @ - 1 ELSE 0]
    ELSE [t EXCEPT !.x10 = v,
                   !.flipped = @ \/ (InFlash(a) /\ f >= 0)]

\* the flash control register is written: mode bits, and the start of an operation
CtlrWrite(t, v, n) ==
    LET fter == WordBit(v, CH32_FLASH_CTLR_FTER) = 1
        ftpg == WordBit(v, CH32_FLASH_CTLR_FTPG) = 1
        strt == WordBit(v, CH32_FLASH_CTLR_STRT) = 1
        pgstrt == WordBit(v, CH32_FLASH_CTLR_PGSTRT) = 1
        page == PageIndex(t.faddr)
        inpage(j) == j >= page /\ j < page + 64
        t1 == [t EXCEPT !.ctlr = <<v[1], v[2] - 128 * HalfBit(v[2], 7) - 32768 * HalfBit(v[2], 15)>>,
                        !.lock = @ \/ HalfBit(v[2], 7) = 1,
                        !.flock = @ \/ HalfBit(v[2], 15) = 1]
    IN
    IF fter /\ strt /\ Unlocked(t) /\ InFlash(t.faddr)
    THEN [t1 EXCEPT !.flash = [j \in 1 .. FlashWords |->
                                   IF inpage(j) THEN ErasedWord ELSE t.flash[j]],
                    !.busy = n]
    ELSE IF ftpg /\ pgstrt /\ Unlocked(t) /\ InFlash(t.faddr)
    THEN [t1 EXCEPT !.flash = [j \in 1 .. FlashWords |->
                                   IF inpage(j) THEN WordAnd(t.flash[j], t.pagebuf[j - page + 1])
                                   ELSE t.flash[j]],
                    !.pagebuf = [j \in 1 .. 64 |-> ErasedWord],
                    !.busy = n]
    ELSE IF ftpg /\ ~pgstrt
    THEN [t1 EXCEPT !.pagebuf = [j \in 1 .. 64 |-> ErasedWord]]
    ELSE t1

\* a key register is written: the second key after the first opens the lock
KeyWrite(t, a, v) ==
    LET k1 == v = UnlockKeys[1][2]
        k2 == v = UnlockKeys[2][2]
    IN
    IF a = Word(UnlockKeys[1][1])
    THEN [t EXCEPT !.keyr = IF k1 THEN 1 ELSE 0,
                   !.lock = IF k2 /\ t.keyr = 1 /\ ~t.stuck THEN FALSE ELSE @]
    ELSE IF a = Word(UnlockKeys[5][1])
    THEN [t EXCEPT !.modekeyr = IF k1 THEN 1 ELSE 0,
                   !.flock = IF k2 /\ t.modekeyr = 1 /\ ~t.stuck THEN FALSE ELSE @]
    ELSE t

\* the target after a store of v to address a; n is how long an operation started now is busy
MemWrite(t, a, v, n) ==
    IF a = Word(CH32_FLASH_CTLR) THEN CtlrWrite(t, v, n)
    ELSE IF a = Word(CH32_FLASH_ADDR) THEN [t EXCEPT !.faddr = v]
    ELSE IF a[1] = UnlockKeys[1][1] \div Half /\ a # Word(CH32_FLASH_STATR)
    THEN KeyWrite(t, a, v)
    ELSE IF InFlash(a) /\ WordBit(t.ctlr, CH32_FLASH_CTLR_FTPG) = 1 /\ Unlocked(t)
    THEN [t EXCEPT !.pagebuf[(a[2] % 256) \div 4 + 1] = v, !.wrbusy = n]
    ELSE t

\* the two instructions the program buffer may hold: c.lw a0,0(a1) and c.sw a0,0(a1)
IsLoad(t) == t.progbuf[1] = BytesToWord(ch32_readmem[1], ch32_readmem[2], ch32_readmem[3], ch32_readmem[4])
IsStore(t) == t.progbuf[1] = BytesToWord(ch32_writemem[1], ch32_writemem[2], ch32_writemem[3], ch32_writemem[4])

\* the command register is written: an abstract command runs
Command(t, c, n, f) ==
    LET write == HalfBit(c[1], 0) = 1
        transfer == HalfBit(c[1], 1) = 1
        postexec == HalfBit(c[1], 2) = 1
        t1 == IF ~transfer THEN t
              ELSE IF c[2] = CH32_REGS_GPR + 10
              THEN (IF write THEN [t EXCEPT !.x10 = t.data0] ELSE [t EXCEPT !.data0 = t.x10])
              ELSE IF c[2] = CH32_REGS_GPR + 11
              THEN (IF write THEN [t EXCEPT !.x11 = t.data0] ELSE [t EXCEPT !.data0 = t.x11])
              ELSE t
    IN
    IF ~postexec THEN t1
    ELSE IF IsLoad(t1) THEN MemRead(t1, t1.x11, f)
    ELSE IF IsStore(t1) THEN MemWrite(t1, t1.x11, t1.x10, n)
    ELSE t1

\* the target after the debug-module register reg is written
DmWrite(t, reg, v, n, f) ==
    IF reg = CH32_REG_DEBUG_DATA0 THEN [t EXCEPT !.data0 = v]
    ELSE IF reg >= CH32_REG_DEBUG_PROGBUF0 /\ reg < CH32_REG_DEBUG_PROGBUF0 + 8
    THEN [t EXCEPT !.progbuf[reg - CH32_REG_DEBUG_PROGBUF0 + 1] = v]
    ELSE IF reg = CH32_REG_DEBUG_COMMAND THEN Command(t, v, n, f)
    ELSE t

\* is this access the run of a load from the flash array / of a store that starts an operation
RunsFlashLoad(t, a) ==
    /\ a.op = "write" /\ a.reg = CH32_REG_DEBUG_COMMAND /\ HalfBit(a.value[1], 2) = 1
    /\ IsLoad(t) /\ InFlash(t.x11) /\ (t.x11[2] % 256) \div 4 \in FlipWords

RunsStore(t, a) ==
    /\ a.op = "write" /\ a.reg = CH32_REG_DEBUG_COMMAND /\ HalfBit(a.value[1], 2) = 1
    /\ IsStore(t)
    /\ \/ InFlash(t.x11)
       \/ t.x11 = Word(CH32_FLASH_CTLR) /\ (WordBit(t.x10, CH32_FLASH_CTLR_STRT) = 1
                                            \/ WordBit(t.x10, CH32_FLASH_CTLR_PGSTRT) = 1)

----------------------------------------------------------------------------
(* The transport accesses the code issues *)

Wr(reg, v) == [op |-> "write", reg |-> reg, value |-> v]
Rd(reg) == [op |-> "read", reg |-> reg, value |-> <<0, 0>>]

\* the abstract command word: register, write (bit 16), transfer (17), postexec (18), 32 bit (2 << 20)
CommandWord(regno, write, transfer, postexec) ==
    <<write + 2 * transfer + 4 * postexec + 32, regno>>

ch32_write_cpu_reg(regno, value) ==
    <<Wr(CH32_REG_DEBUG_DATA0, value),
      Wr(CH32_REG_DEBUG_COMMAND, CommandWord(regno, 1, 1, 0))>>

ch32_read_cpu_reg(regno) ==
    <<Wr(CH32_REG_DEBUG_COMMAND, CommandWord(regno, 0, 1, 0)),
      Rd(CH32_REG_DEBUG_DATA0)>>

\* byte k (from 0) of tmp[8] = {0} after memcpy(tmp, code, code_size)
TmpByte(code, k) == IF k < Len(code) THEN code[k + 1] ELSE 0

\* a length test that lets one more halfword through
CodeTooLong_OneMore(n) == n > 8 * 4 + 2

\* code_size > 8 * 4
CodeTooLong(n) == n > 8 * 4

\* code_size & 1
CodeOdd(n) == n % 2 = 1

\* the accesses ch32_run_debug_code issues
ch32_run_debug_code(code) ==
    IF CodeTooLong(Len(code)) THEN <<>>
    ELSE IF CodeOdd(Len(code)) THEN <<>>
    ELSE [j \in 1 .. 8 |->
             Wr(CH32_REG_DEBUG_PROGBUF0 + (j - 1),
                BytesToWord(TmpByte(code, 4 * (j - 1)), TmpByte(code, 4 * (j - 1) + 1),
                            TmpByte(code, 4 * (j - 1) + 2), TmpByte(code, 4 * (j - 1) + 3)))]
         \o <<Wr(CH32_REG_DEBUG_COMMAND, CommandWord(0, 0, 0, 1))>>

ch32_read_memory_word(address) ==
    ch32_write_cpu_reg(CH32_REGS_GPR + 11, Word(address))
    \o ch32_run_debug_code(ch32_readmem)
    \o ch32_read_cpu_reg(CH32_REGS_GPR + 10)

ch32_write_memory_word(address, value) ==
    ch32_write_cpu_reg(CH32_REGS_GPR + 10, value)
    \o ch32_write_cpu_reg(CH32_REGS_GPR + 11, Word(address))
    \o ch32_run_debug_code(ch32_writemem)

----------------------------------------------------------------------------
(* Observations *)

ObsInit(erased, locked) ==
    [ accessed     |-> FALSE,   \* a transport access was performed
      faulted      |-> FALSE,   \* a transport access reported failure
      afterFault   |-> FALSE,   \* an access or a step of ch32_program followed a failed access
      polls        |-> 0,       \* status reads of the current CPU-control operation
      ctl          |-> "none",  \* the CPU-control operation that ran last
      ctlTimedOut  |-> FALSE,   \* ... and whether it gave up
      haltedSeen   |-> FALSE,   \* a status read showed the halted pattern to halt
      unlockSeen   |-> FALSE,   \* the second control-register read of unlock showed the lock bits clear
      resetSeen    |-> FALSE,   \* a status read showed the reset pattern to reset_and_run
      erasedAtStart |-> erased, \* the flash array was erased when the caller's call began
      lockedAtStart |-> locked, \* the flash controller was locked when the caller's call began
      op           |-> "none",  \* the operation that began last
      hw           |-> <<>>,    \* what the target was made to do since that operation began
      waitPolls    |-> 0,       \* consecutive loads of the flash status register
      storedBusy   |-> FALSE,   \* a store was executed while the flash controller was busy
      readEnd      |-> 0 ]      \* end of the bytes write_flash_block copied from the caller's buffer

\* operation op begins: what it makes the target do is recorded from here on
Begin(ob, op) == [ob EXCEPT !.op = op, !.hw = <<>>, !.waitPolls = 0]

\* access a makes the target run its program buffer
Executes(a) ==
    a.op = "write" /\ a.reg = CH32_REG_DEBUG_COMMAND /\ HalfBit(a.value[1], 2) = 1

\* the observations after access a was performed on target t.  Recorded are the
\* accesses themselves for ch32_run_debug_code, and for every other operation the
\* writes of the debug-module control register and the loads and stores the target
\* executes (a run of loads of the flash status register counts as one wait).
Observe(ob, t, a) ==
    LET add(e) == [ob EXCEPT !.hw = Append(@, e), !.waitPolls = 0]
        poll == <<"load", Word(CH32_FLASH_STATR)>>
    IN
    IF ob.op = "run_debug_code" THEN add(<<a.op, a.reg, a.value>>)
    ELSE IF a.op = "write" /\ a.reg = CH32_REG_DEBUG_DMCONTROL THEN add(<<"dmcontrol", a.value>>)
    ELSE IF Executes(a) /\ IsLoad(t)
    THEN IF t.x11 = Word(CH32_FLASH_STATR)
         THEN [ob EXCEPT !.hw = IF @ # <<>> /\ @[Len(@)] = poll THEN @ ELSE Append(@, poll),
                         !.waitPolls = IF @ < MaxWaitPolls THEN @ + 1 ELSE @]
         ELSE add(<<"load", t.x11>>)
    ELSE IF Executes(a) /\ IsStore(t)
    THEN [add(<<"store", t.x11, t.x10>>) EXCEPT
             !.storedBusy = @ \/ t.busy > 0 \/ t.wrbusy > 0 \/ t.busyStuck]
    ELSE ob

----------------------------------------------------------------------------
(* Calls and returns *)

Idle == queue = <<>>

Call(f, r) == pc' = f /\ stack' = <<r>> \o stack

ReturnVoid ==
    IF stack = <<>>
    THEN pc' = "done" /\ stack' = stack
    ELSE pc' = Head(stack) /\ stack' = Tail(stack)

Return(v) == ret' = v /\ ReturnVoid

inputs == <<entry, seed, code_size, faultsLeft>>
wfArgs == <<addr, data_len>>
blockLocals == <<blk, wdata, rdata, wi>>

----------------------------------------------------------------------------
(* The transport: one rvswd_read or rvswd_write *)

\* the value a successful read of debug-module register reg may deliver
ReadValues(t, reg) ==
    IF reg = CH32_REG_DEBUG_DMSTATUS THEN StatusValues
    ELSE IF reg = CH32_REG_DEBUG_DATA0 THEN {t.data0}
    ELSE {<<0, 0>>}

rvswd ==
    /\ queue # <<>>
    /\ LET a == Head(queue) IN
       \E ok \in (IF faultsLeft > 0 /\ wi \in FaultWords THEN BOOLEAN ELSE {TRUE}) :
       \E n \in (IF ok /\ RunsStore(target, a) THEN 0 .. MaxBusy ELSE {0}) :
       \E f \in (IF ok /\ RunsFlashLoad(target, a) /\ ~target.flipped THEN FlipBits \cup {-1} ELSE {-1}) :
       \E v \in (IF a.op = "write" THEN {rval}
                 ELSE IF ok THEN ReadValues(target, a.reg) ELSE GarbageWords) :
          /\ queue' = Tail(queue)
          /\ rval' = v
          /\ target' = IF ok /\ a.op = "write" THEN DmWrite(target, a.reg, a.value, n, f)
                       ELSE target
          /\ faultsLeft' = IF ok THEN faultsLeft ELSE faultsLeft - 1
          /\ obs' = [(IF ok THEN Observe(obs, target, a) ELSE obs) EXCEPT
                         !.accessed = TRUE,
                         !.faulted = @ \/ ~ok,
                         !.afterFault = @ \/ obs.faulted]
    /\ UNCHANGED <<entry, seed, code_size, pc, stack, ret, timeout, addr, data_len, i, blk,
                   wdata, rdata, wi, started, log, wfLog>>

----------------------------------------------------------------------------
(* ch32_run_debug_code, called by the caller itself *)

\* byte k (from 0) of the debug program the caller passes
CodeByte(k) == 255 - k

\* the value ch32_run_debug_code returns
RunDebugCodeResult(n) == IF CodeTooLong(n) \/ CodeOdd(n) THEN false ELSE true

ch32_run_debug_code_call ==
    /\ Idle
    /\ pc = "run_debug_code"
    /\ queue' = ch32_run_debug_code([k \in 1 .. code_size |-> CodeByte(k - 1)])
    /\ log' = IF CodeTooLong(code_size) THEN Append(log, "Debug program is too long")
              ELSE IF CodeOdd(code_size)
              THEN Append(log, "Debug program size must be a multiple of 2")
              ELSE log
    /\ Return(RunDebugCodeResult(code_size))
    /\ obs' = Begin(obs, "run_debug_code")
    /\ UNCHANGED <<inputs, rval, timeout, wfArgs, i, blockLocals, target, started, wfLog>>

----------------------------------------------------------------------------
(* CPU control *)

\* a loop that gives up one retry early
TimedOut_OneEarly(t) == t <= 1

\* the loop's exit test: timeout == 0
TimedOut(t) == t = 0

\* ((value >> 8) & 0b11) == 0b11
HaltedPattern(v) == (v[2] \div 256) % 4 = 3

\* ((value >> 10) & 0b11) == 0b11
ResumedPattern(v) == (v[2] \div 1024) % 4 = 3

\* a test of the halted bits in the place of the reset bits
ResetPattern_Halted(v) == (v[2] \div 256) % 4 = 3

\* ((value >> 18) & 0b11) == 0b11
ResetPattern(v) == (v[1] \div 4) % 4 = 3

\* the value ch32_halt_microprocessor returns when it gives up: `return false`
HaltTimeoutResult == false

PollBudget == 5

ch32_halt_microprocessor ==
    /\ Idle
    /\ \/ /\ pc = "halt"
          /\ queue' = <<Wr(CH32_REG_DEBUG_DMCONTROL, DM_HALTREQ),
                        Wr(CH32_REG_DEBUG_DMCONTROL, DM_HALTREQ),
                        Rd(CH32_REG_DEBUG_DMSTATUS)>>
          /\ timeout' = PollBudget
          /\ pc' = "halt_check"
          /\ obs' = [Begin(obs, "halt") EXCEPT !.polls = 1, !.ctl = "halt", !.ctlTimedOut = FALSE]
          /\ UNCHANGED <<stack, ret, log>>
       \/ /\ pc = "halt_check"
          /\ IF HaltedPattern(rval)
             THEN /\ queue' = <<Wr(CH32_REG_DEBUG_DMCONTROL, DM_CLEAR)>>
                  /\ log' = Append(log, "Microprocessor halted")
                  /\ obs' = [obs EXCEPT !.haltedSeen = TRUE]
                  /\ Return(RVSWD_OK)
                  /\ timeout' = 0
             ELSE IF TimedOut(timeout)
             THEN /\ log' = Append(log, "Failed to halt microprocessor")
                  /\ obs' = [obs EXCEPT !.ctlTimedOut = TRUE]
                  /\ Return(HaltTimeoutResult)
                  /\ timeout' = 0
                  /\ UNCHANGED queue
             ELSE /\ timeout' = timeout - 1
                  /\ queue' = <<Rd(CH32_REG_DEBUG_DMSTATUS)>>
                  /\ obs' = [obs EXCEPT !.polls = @ + 1]
                  /\ UNCHANGED <<pc, stack, ret, log>>
    /\ UNCHANGED <<inputs, rval, wfArgs, i, blockLocals, target, started, wfLog>>

ch32_resume_microprocessor ==
    /\ Idle
    /\ \/ /\ pc = "resume"
          /\ queue' = <<Wr(CH32_REG_DEBUG_DMCONTROL, DM_HALTREQ),
                        Wr(CH32_REG_DEBUG_DMCONTROL, DM_HALTREQ),
                        Wr(CH32_REG_DEBUG_DMCONTROL, DM_CLEAR),
                        Wr(CH32_REG_DEBUG_DMCONTROL, DM_RESUMEREQ),
                        Rd(CH32_REG_DEBUG_DMSTATUS)>>
          /\ timeout' = PollBudget
          /\ pc' = "resume_check"
          /\ obs' = [Begin(obs, "resume") EXCEPT !.polls = 1, !.ctl = "resume", !.ctlTimedOut = FALSE]
          /\ UNCHANGED <<stack, ret, log>>
       \/ /\ pc = "resume_check"
          /\ IF ResumedPattern(rval)
             THEN /\ Return(RVSWD_OK)
                  /\ timeout' = 0
                  /\ UNCHANGED <<queue, log, obs>>
             ELSE IF TimedOut(timeout)
             THEN /\ log' = Append(log, "Failed to resume microprocessor")
                  /\ obs' = [obs EXCEPT !.ctlTimedOut = TRUE]
                  /\ Return(RVSWD_FAIL)
                  /\ timeout' = 0
                  /\ UNCHANGED queue
             ELSE /\ timeout' = timeout - 1
                  /\ queue' = <<Rd(CH32_REG_DEBUG_DMSTATUS)>>
                  /\ obs' = [obs EXCEPT !.polls = @ + 1]
                  /\ UNCHANGED <<pc, stack, ret, log>>
    /\ UNCHANGED <<inputs, rval, wfArgs, i, blockLocals, target, started, wfLog>>

ch32_reset_microprocessor_and_run ==
    /\ Idle
    /\ \/ /\ pc = "reset_and_run"
          /\ queue' = <<Wr(CH32_REG_DEBUG_DMCONTROL, DM_HALTREQ),
                        Wr(CH32_REG_DEBUG_DMCONTROL, DM_HALTREQ),
                        Wr(CH32_REG_DEBUG_DMCONTROL, DM_CLEAR),
                        Wr(CH32_REG_DEBUG_DMCONTROL, DM_RESETREQ),
                        Rd(CH32_REG_DEBUG_DMSTATUS)>>
          /\ timeout' = PollBudget
          /\ pc' = "reset_check"
          /\ obs' = [Begin(obs, "reset_and_run") EXCEPT !.polls = 1, !.ctl = "reset_and_run", !.ctlTimedOut = FALSE]
          /\ UNCHANGED <<stack, ret, log>>
       \/ /\ pc = "reset_check"
          /\ IF ResetPattern(rval)
             THEN /\ queue' = <<Wr(CH32_REG_DEBUG_DMCONTROL, DM_CLEAR),
                                Wr(CH32_REG_DEBUG_DMCONTROL, DM_ACKRESET),
                                Wr(CH32_REG_DEBUG_DMCONTROL, DM_CLEAR)>>
                  /\ obs' = [obs EXCEPT !.resetSeen = TRUE]
                  /\ Return(RVSWD_OK)
                  /\ timeout' = 0
                  /\ UNCHANGED log
             ELSE IF TimedOut(timeout)
             THEN /\ log' = Append(log, "Failed to reset microprocessor")
                  /\ obs' = [obs EXCEPT !.ctlTimedOut = TRUE]
                  /\ Return(RVSWD_FAIL)
                  /\ timeout' = 0
                  /\ UNCHANGED queue
             ELSE /\ timeout' = timeout - 1
                  /\ queue' = <<Rd(CH32_REG_DEBUG_DMSTATUS)>>
                  /\ obs' = [obs EXCEPT !.polls = @ + 1]
                  /\ UNCHANGED <<pc, stack, ret, log>>
    /\ UNCHANGED <<inputs, rval, wfArgs, i, blockLocals, target, started, wfLog>>

----------------------------------------------------------------------------
(* Flash programmer *)

\* value & CH32_FLASH_STATR_BUSY, value & CH32_FLASH_STATR_WRBUSY
Busy(v) == WordBit(v, CH32_FLASH_STATR_BUSY) = 1
WrBusy(v) == WordBit(v, CH32_FLASH_STATR_WRBUSY) = 1

ch32_wait_flash ==
    /\ Idle
    /\ \/ /\ pc = "wait"
          /\ queue' = ch32_read_memory_word(CH32_FLASH_STATR)
          /\ pc' = "wait_check"
          /\ UNCHANGED stack
       \/ /\ pc = "wait_check"
          /\ IF Busy(rval)
             THEN /\ queue' = ch32_read_memory_word(CH32_FLASH_STATR)
                  /\ UNCHANGED <<pc, stack>>
             ELSE /\ ReturnVoid
                  /\ UNCHANGED queue
    /\ UNCHANGED <<inputs, rval, ret, timeout, wfArgs, i, blockLocals, target, started,
                   log, wfLog, obs>>

ch32_wait_flash_write ==
    /\ Idle
    /\ \/ /\ pc = "wait_write"
          /\ queue' = ch32_read_memory_word(CH32_FLASH_STATR)
          /\ pc' = "wait_write_check"
          /\ UNCHANGED stack
       \/ /\ pc = "wait_write_check"
          /\ IF WrBusy(rval)
             THEN /\ queue' = ch32_read_memory_word(CH32_FLASH_STATR)
                  /\ UNCHANGED <<pc, stack>>
             ELSE /\ ReturnVoid
                  /\ UNCHANGED queue
    /\ UNCHANGED <<inputs, rval, ret, timeout, wfArgs, i, blockLocals, target, started,
                   log, wfLog, obs>>

\* the value ch32_unlock_flash returns: !(ctlr & 0x8080)
UnlockResult(ctlr) == IF LockBits(ctlr) THEN false ELSE true

\* the six key writes, in order
UnlockKeyWrites ==
    ch32_write_memory_word(UnlockKeys[1][1], UnlockKeys[1][2])
    \o ch32_write_memory_word(UnlockKeys[2][1], UnlockKeys[2][2])
    \o ch32_write_memory_word(UnlockKeys[3][1], UnlockKeys[3][2])
    \o ch32_write_memory_word(UnlockKeys[4][1], UnlockKeys[4][2])
    \o ch32_write_memory_word(UnlockKeys[5][1], UnlockKeys[5][2])
    \o ch32_write_memory_word(UnlockKeys[6][1], UnlockKeys[6][2])

ch32_unlock_flash ==
    /\ Idle
    /\ \/ /\ pc = "unlock"
          /\ queue' = ch32_read_memory_word(CH32_FLASH_CTLR)
          /\ pc' = "unlock_keys"
          /\ obs' = Begin(obs, "unlock")
          /\ UNCHANGED <<stack, ret>>
       \/ /\ pc = "unlock_keys"
          /\ queue' = UnlockKeyWrites \o ch32_read_memory_word(CH32_FLASH_CTLR)
          /\ pc' = "unlock_result"
          /\ UNCHANGED <<stack, ret, obs>>
       \/ /\ pc = "unlock_result"
          /\ obs' = [obs EXCEPT !.unlockSeen = ~LockBits(rval)]
          /\ Return(UnlockResult(rval))
          /\ UNCHANGED queue
    /\ UNCHANGED <<inputs, rval, timeout, wfArgs, i, blockLocals, target, started, log, wfLog>>

\* an alignment test that asks for 64 bytes only
BlockMisaligned_Range(a) == a % 64 # 0

\* addr % 256: the block functions' alignment test
BlockMisaligned(a) == a % 256 # 0

ch32_erase_flash_block ==
    /\ Idle
    /\ \/ /\ pc = "erase"
          /\ IF BlockMisaligned(blk)
             THEN /\ Return(false)
                  /\ wfLog' = Append(wfLog, <<"erased", blk, false>>)
             ELSE /\ Call("wait", "erase_start")
                  /\ UNCHANGED <<ret, wfLog>>
          /\ obs' = Begin(obs, "erase")
          /\ UNCHANGED queue
       \/ /\ pc = "erase_start"
          /\ queue' = ch32_write_memory_word(CH32_FLASH_CTLR, BitWord(CH32_FLASH_CTLR_FTER))
                      \o ch32_write_memory_word(CH32_FLASH_ADDR, Word(blk))
                      \o ch32_write_memory_word(CH32_FLASH_CTLR,
                             WordOr(BitWord(CH32_FLASH_CTLR_FTER), BitWord(CH32_FLASH_CTLR_STRT)))
          /\ Call("wait", "erase_end")
          /\ UNCHANGED <<ret, wfLog, obs>>
       \/ /\ pc = "erase_end"
          /\ queue' = ch32_write_memory_word(CH32_FLASH_CTLR, <<0, 0>>)
          /\ Return(true)
          /\ wfLog' = Append(wfLog, <<"erased", blk, true>>)
          /\ UNCHANGED obs
    /\ UNCHANGED <<inputs, rval, timeout, wfArgs, i, blockLocals, target, started, log>>

\* what a byte of the caller's buffer holds: the image, and beyond its end whatever is there
DataByte(k, g) == IF k < data_len THEN FirmwareByte(seed, k) ELSE g

GarbageBytes == {0, 255}

\* a copy that always takes the first block of the buffer
CopyBlock_FirstBlock(off, g) ==
    [j \in 1 .. 64 |->
        BytesToWord(DataByte(4 * (j - 1), g), DataByte(4 * (j - 1) + 1, g),
                    DataByte(4 * (j - 1) + 2, g), DataByte(4 * (j - 1) + 3, g))]

\* memcpy(wdata, data, sizeof(wdata)) with data = firmware + off
CopyBlock(off, g) ==
    [j \in 1 .. 64 |->
        BytesToWord(DataByte(off + 4 * (j - 1), g), DataByte(off + 4 * (j - 1) + 1, g),
                    DataByte(off + 4 * (j - 1) + 2, g), DataByte(off + 4 * (j - 1) + 3, g))]

\* words addressed from the end of the block down
WordAddress_Descending(base, k) == base + (63 - k) * 4

\* addr + i * 4: the address of word i of the block
WordAddress(base, k) == base + k * 4

\* a comparison that stops one word short
BlockEqual_OneShort(w, r) == \A j \in 1 .. 63 : w[j] = r[j]

\* memcmp(wdata, rdata, sizeof(wdata)) == 0
BlockEqual(w, r) == \A j \in 1 .. 64 : w[j] = r[j]

ch32_write_flash_block ==
    /\ Idle
    /\ \/ /\ pc = "write_block"
          /\ IF BlockMisaligned(blk)
             THEN /\ Return(false)
                  /\ wfLog' = Append(wfLog, <<"verified", blk, false>>)
             ELSE /\ Call("wait", "write_block_start")
                  /\ UNCHANGED <<ret, wfLog>>
          /\ obs' = Begin(obs, "write_block")
          /\ UNCHANGED <<queue, wdata, rdata, wi, log>>
       \/ /\ pc = "write_block_start"
          /\ queue' = ch32_write_memory_word(CH32_FLASH_CTLR, BitWord(CH32_FLASH_CTLR_FTPG))
                      \o ch32_write_memory_word(CH32_FLASH_ADDR, Word(blk))
          /\ \E g \in (IF i + 256 > data_len THEN GarbageBytes ELSE {0}) :
                wdata' = CopyBlock(i, g)
          /\ wi' = 0
          /\ pc' = "write_block_words"
          /\ obs' = [obs EXCEPT !.readEnd = i + 256]
          /\ UNCHANGED <<stack, ret, rdata, log, wfLog>>
       \/ /\ pc = "write_block_words"
          /\ IF wi < 64
             THEN /\ queue' = ch32_write_memory_word(WordAddress(blk, wi), wdata[wi + 1])
                  /\ wi' = wi + 1
                  /\ Call("wait_write", "write_block_words")
             ELSE /\ queue' = ch32_write_memory_word(CH32_FLASH_CTLR,
                                  WordOr(BitWord(CH32_FLASH_CTLR_FTPG), BitWord(CH32_FLASH_CTLR_PGSTRT)))
                  /\ wi' = wi
                  /\ Call("wait", "write_block_clear")
          /\ UNCHANGED <<ret, wdata, rdata, log, wfLog, obs>>
       \/ /\ pc = "write_block_clear"
          /\ queue' = ch32_write_memory_word(CH32_FLASH_CTLR, <<0, 0>>)
                      \o ch32_read_memory_word(WordAddress(blk, 0))
          /\ wi' = 0
          /\ rdata' = <<>>
          /\ pc' = "write_block_read"
          /\ UNCHANGED <<stack, ret, wdata, log, wfLog, obs>>
       \/ /\ pc = "write_block_read"
          /\ rdata' = Append(rdata, rval)
          /\ IF wi + 1 < 64
             THEN /\ queue' = ch32_read_memory_word(WordAddress(blk, wi + 1))
                  /\ wi' = wi + 1
                  /\ UNCHANGED <<pc, stack, ret, log, wfLog>>
             ELSE /\ wi' = wi + 1
                  /\ IF BlockEqual(wdata, rdata')
                     THEN /\ Return(true)
                          /\ wfLog' = Append(wfLog, <<"verified", blk, true>>)
                          /\ UNCHANGED log
                     ELSE /\ Return(false)
                          /\ wfLog' = Append(wfLog, <<"verified", blk, false>>)
                          /\ log' = Append(log, "Write block mismatch")
                  /\ UNCHANGED queue
          /\ UNCHANGED <<wdata, obs>>
    /\ UNCHANGED <<inputs, rval, timeout, wfArgs, i, blk, target, started>>

\* a callback that reports the bytes done after the block
StatusCall_AfterBlock(progress, total) == <<"status", progress + 256, total>>

\* ch32_status_callback(buffer, i, data_len)
StatusCall(progress, total) == <<"status", progress, total>>

\* an alignment test that only asks for word alignment
RangeMisaligned_Word(a) == a % 4 # 0

\* an alignment test that asks for a whole block
RangeMisaligned_Block(a) == a % 256 # 0

\* addr % 64: the alignment test of ch32_write_flash
RangeMisaligned(a) == a % 64 # 0

\* a loop that ignores the results of the block operations
BlockFailed_Ignored(r) == FALSE

\* !ch32_erase_flash_block(...), !ch32_write_flash_block(...)
BlockFailed(r) == r = false

ch32_write_flash ==
    /\ Idle
    /\ \/ /\ pc = "write_flash"
          /\ IF RangeMisaligned(addr)
             THEN /\ Return(false)
                  /\ UNCHANGED i
             ELSE /\ i' = 0
                  /\ pc' = "write_flash_loop"
                  /\ UNCHANGED <<stack, ret>>
          /\ UNCHANGED <<blk, log, wfLog>>
       \/ /\ pc = "write_flash_loop"
          /\ IF i < data_len
             THEN /\ wfLog' = wfLog \o <<StatusCall(i, data_len), <<"erase", addr + i>> >>
                  /\ blk' = addr + i
                  /\ Call("erase", "write_flash_erased")
                  /\ UNCHANGED ret
             ELSE /\ Return(true)
                  /\ UNCHANGED <<blk, wfLog>>
          /\ UNCHANGED <<i, log>>
       \/ /\ pc = "write_flash_erased"
          /\ IF BlockFailed(ret)
             THEN /\ log' = Append(log, "Failed to erase FLASH")
                  /\ Return(false)
                  /\ UNCHANGED <<blk, wfLog>>
             ELSE /\ wfLog' = Append(wfLog, <<"program", addr + i>>)
                  /\ blk' = addr + i
                  /\ Call("write_block", "write_flash_written")
                  /\ UNCHANGED <<ret, log>>
          /\ UNCHANGED i
       \/ /\ pc = "write_flash_written"
          /\ IF BlockFailed(ret)
             THEN /\ log' = Append(log, "Failed to write FLASH")
                  /\ Return(false)
                  /\ UNCHANGED i
             ELSE /\ i' = i + 256
                  /\ pc' = "write_flash_loop"
                  /\ UNCHANGED <<stack, ret, log>>
          /\ UNCHANGED <<blk, wfLog>>
    /\ UNCHANGED <<inputs, queue, rval, timeout, wfArgs, wdata, rdata, wi, target, started, obs>>

----------------------------------------------------------------------------
(* Programming orchestrator *)

\* the results rvswd_init and rvswd_reset may report
TransportResults == {RVSWD_OK, RVSWD_FAIL}

\* res != RVSWD_OK
NotOk(res) == res # RVSWD_OK

Stop(msg) ==
    /\ log' = Append(log, msg)
    /\ pc' = "done"
    /\ UNCHANGED <<stack, started, wfArgs>>

ch32_program ==
    /\ Idle
    /\ \/ /\ pc = "program"
          /\ \E res \in TransportResults :
                /\ ret' = res
                /\ IF NotOk(res)
                   THEN /\ log' = Append(log, "Init error")
                        /\ pc' = "done"
                   ELSE /\ pc' = "program_reset"
                        /\ UNCHANGED log
          /\ started' = Append(started, "init")
          /\ UNCHANGED <<stack, wfArgs, obs>>
       \/ /\ pc = "program_reset"
          /\ \E res \in TransportResults :
                /\ ret' = res
                /\ IF NotOk(res)
                   THEN /\ log' = Append(log, "Reset error")
                        /\ pc' = "done"
                        /\ started' = Append(started, "reset")
                        /\ UNCHANGED stack
                   ELSE /\ Call("halt", "program_halted")
                        /\ started' = started \o <<"reset", "halt">>
                        /\ UNCHANGED log
          /\ UNCHANGED <<wfArgs, obs>>
       \/ /\ pc = "program_halted"
          /\ IF NotOk(ret)
             THEN Stop("Failed to halt")
             ELSE /\ Call("unlock", "program_unlocked")
                  /\ started' = Append(started, "unlock")
                  /\ UNCHANGED <<log, wfArgs>>
          /\ obs' = [obs EXCEPT !.polls = 0, !.ctl = "none", !.ctlTimedOut = FALSE]
          /\ UNCHANGED ret
       \/ /\ pc = "program_unlocked"
          /\ IF ret = false
             THEN Stop("Failed to unlock")
             ELSE /\ Call("write_flash", "program_written")
                  /\ addr' = CH32_CODE_BEGIN
                  /\ started' = Append(started, "write_flash")
                  /\ UNCHANGED <<log, data_len>>
          /\ UNCHANGED <<ret, obs>>
       \/ /\ pc = "program_written"
          /\ IF ret = false
             THEN Stop("Failed to write flash")
             ELSE /\ Call("reset_and_run", "program_finished")
                  /\ started' = Append(started, "reset_and_run")
                  /\ UNCHANGED <<log, wfArgs>>
          /\ UNCHANGED <<ret, obs>>
       \/ /\ pc = "program_finished"
          /\ IF NotOk(ret)
             THEN Stop("Failed to reset and run")
             ELSE Stop("Okay!")
          /\ UNCHANGED <<ret, obs>>
    /\ UNCHANGED <<inputs, queue, rval, timeout, i, blockLocals, target, wfLog>>

----------------------------------------------------------------------------
(* The calls a caller may make, and the specification *)

Entries ==
    {"program", "halt", "resume", "reset_and_run", "unlock", "write_flash", "write_block",
     "erase", "run_debug_code"}

\* the state in which the caller's call of function e begins
InitCall(e, a, len, s, locked, stuck, erased, busyStuck, faults) ==
    /\ entry = e
    /\ pc = e
    /\ stack = <<>>
    /\ queue = <<>>
    /\ rval = <<0, 0>>
    /\ ret = 0
    /\ timeout = 0
    /\ addr = IF e = "write_flash" THEN a ELSE 0
    /\ data_len = IF e = "run_debug_code" THEN 0 ELSE len
    /\ seed = s
    /\ code_size = IF e = "run_debug_code" THEN len ELSE 0
    /\ i = 0
    /\ blk = IF e \in {"write_block", "erase"} THEN a ELSE 0
    /\ wdata = <<>>
    /\ rdata = <<>>
    /\ wi = 0
    /\ target = TargetInit(locked, stuck, erased, busyStuck)
    /\ faultsLeft = faults
    /\ started = <<>>
    /\ log = <<>>
    /\ wfLog = <<>>
    /\ obs = ObsInit(erased, locked)

Init ==
    \/ \E len \in Lengths, locked \in BOOLEAN, stuck \in BOOLEAN :
          /\ stuck => locked
          /\ InitCall("program", 0, len, 1, locked, stuck, FALSE, FALSE, 0)
    \/ \E e \in {"halt", "resume", "reset_and_run"} :
          InitCall(e, 0, 0, 1, TRUE, FALSE, FALSE, FALSE, 0)
    \/ \E locked \in BOOLEAN, stuck \in BOOLEAN :
          /\ stuck => locked
          /\ InitCall("unlock", 0, 0, 1, locked, stuck, FALSE, FALSE, 0)
    \/ \E a \in BaseAddrs, len \in Lengths, s \in Seeds, locked \in BOOLEAN :
          InitCall("write_flash", a, len, s, locked, FALSE, FALSE, FALSE, 0)
    \/ \E len \in PartialLengths :
          InitCall("write_flash", CH32_CODE_BEGIN, len, 1, FALSE, FALSE, FALSE, FALSE, 0)
    \/ \E a \in {CH32_CODE_BEGIN, CH32_CODE_BEGIN + 256}, s \in Seeds, erased \in BOOLEAN :
          InitCall("write_block", a, 256, s, FALSE, FALSE, erased, FALSE, 0)
    \/ \E a \in BlockAddrs \ {CH32_CODE_BEGIN} :
          InitCall("write_block", a, 256, 1, FALSE, FALSE, TRUE, FALSE, 0)
    \/ \E a \in BlockAddrs, busyStuck \in BOOLEAN :
          InitCall("erase", a, 0, 1, FALSE, FALSE, FALSE, busyStuck, 0)
    \/ \E n \in 0 .. MaxCodeSize :
          InitCall("run_debug_code", 0, n, 1, TRUE, FALSE, FALSE, FALSE, 0)

Next ==
    \/ rvswd
    \/ ch32_halt_microprocessor
    \/ ch32_resume_microprocessor
    \/ ch32_reset_microprocessor_and_run
    \/ ch32_wait_flash
    \/ ch32_wait_flash_write
    \/ ch32_unlock_flash
    \/ ch32_erase_flash_block
    \/ ch32_write_flash_block
    \/ ch32_write_flash
    \/ ch32_program
    \/ ch32_run_debug_code_call

Spec == Init /\ [][Next]_vars

\* transport failures the environment may inject in one run of SpecFault
MaxFaults == 1

\* the same code on a transport that may fail
InitFault ==
    \/ \E len \in {0, 256} :
          InitCall("program", 0, len, 1, TRUE, FALSE, FALSE, FALSE, MaxFaults)
    \/ InitCall("resume", 0, 0, 1, TRUE, FALSE, FALSE, FALSE, MaxFaults)
    \/ InitCall("run_debug_code", 0, 4, 1, TRUE, FALSE, FALSE, FALSE, MaxFaults)

SpecFault == InitFault /\ [][Next]_vars

----------------------------------------------------------------------------
(* Vocabulary of the properties *)

InLog(m) == \E k \in 1 .. Len(log) : log[k] = m

Started(step) == \E k \in 1 .. Len(started) : started[k] = step

\* the steps of ch32_program, in the order of the source
ProgramSteps == <<"init", "reset", "halt", "unlock", "write_flash", "reset_and_run">>

IsPrefix(p, q) == Len(p) <= Len(q) /\ \A k \in 1 .. Len(p) : p[k] = q[k]

\* the step that logs each failure message
FailureStep ==
    [ m \in {"Init error", "Reset error", "Failed to halt microprocessor", "Failed to halt",
             "Failed to unlock", "Write block mismatch", "Failed to erase FLASH",
             "Failed to write FLASH", "Failed to write flash",
             "Failed to reset microprocessor", "Failed to reset and run"} |->
        CASE m = "Init error" -> "init"
          [] m = "Reset error" -> "reset"
          [] m \in {"Failed to halt microprocessor", "Failed to halt"} -> "halt"
          [] m = "Failed to unlock" -> "unlock"
          [] m \in {"Failed to reset microprocessor", "Failed to reset and run"} -> "reset_and_run"
          [] OTHER -> "write_flash" ]

\* the final reports of ch32_program that name a failure
FailureReports ==
    {"Init error", "Reset error", "Failed to halt", "Failed to unlock",
     "Failed to write flash", "Failed to reset and run"}

\* word j (from 0) of the firmware image
ImageWord(j) ==
    BytesToWord(FirmwareByte(seed, 4 * j), FirmwareByte(seed, 4 * j + 1),
                FirmwareByte(seed, 4 * j + 2), FirmwareByte(seed, 4 * j + 3))

\* the flash array holds the first n bytes of the image from address a on
FlashHoldsImage(a, n) ==
    \A j \in 0 .. (n \div 4 - 1) :
        target.flash[FlashIndex(Word(a + 4 * j))] = ImageWord(j)

\* the events of one complete erase + program + verify cycle of block b of n bytes at base a
Cycle(a, b, n) ==
    << <<"status", 256 * b, n>>, <<"erase", a + 256 * b>>, <<"erased", a + 256 * b, true>>,
       <<"program", a + 256 * b>>, <<"verified", a + 256 * b, true>> >>

\* the events of n / 256 complete cycles, blocks in ascending order
Cycles(a, n) == [k \in 1 .. 5 * (n \div 256) |-> Cycle(a, (k - 1) \div 5, n)[((k - 1) % 5) + 1]]

\* ch32_write_flash has returned to its caller
WriteFlashReturned ==
    \/ entry = "write_flash" /\ pc = "done"
    \/ entry = "program" /\ Started("write_flash")
       /\ (pc \in {"program_written", "program_finished", "done"} \/ Started("reset_and_run"))

\* the number of events of kind e among the first k events of write_flash
RECURSIVE CountEvents(_, _)
CountEvents(e, k) ==
    IF k = 0 THEN 0
    ELSE CountEvents(e, k - 1) + (IF wfLog[k][1] = e THEN 1 ELSE 0)

\* a block operation of write_flash has reported failure
BlockOperationFailed ==
    /\ entry \in {"program", "write_flash"}
    /\ \E k \in 1 .. Len(wfLog) : wfLog[k][1] \in {"erased", "verified"} /\ wfLog[k][3] = false

----------------------------------------------------------------------------
(* C1..C3: the orchestrator *)

\* C1: ch32_program starts its steps in the fixed order init, reset, halt, unlock,
\* write_flash, reset_and_run; once a step has reported a failure no later step is
\* started, and after the final failure report nothing more is done (no cleanup).
C1_StepsInOrderStopAtFailure ==
    entry = "program" =>
        /\ IsPrefix(started, ProgramSteps)
        /\ \A k \in 1 .. Len(log) :
              log[k] \in DOMAIN FailureStep => started[Len(started)] = FailureStep[log[k]]
        /\ (\E k \in 1 .. Len(log) : log[k] \in FailureReports) => pc = "done" /\ queue = <<>>

\* C2: ch32_program reports "Okay!" only if halt saw the halted pattern, unlock saw the
\* lock bits clear, every block was erased, programmed and read back equal, and
\* reset_and_run saw the reset pattern; every other finished run ends in a failure report.
C2_OkayOnlyAfterFullSuccess ==
    entry = "program" /\ pc = "done" =>
        IF InLog("Okay!")
        THEN /\ obs.haltedSeen
             /\ obs.unlockSeen
             /\ wfLog = Cycles(CH32_CODE_BEGIN, data_len)
             /\ obs.resetSeen
        ELSE log # <<>> /\ log[Len(log)] \in FailureReports

\* C3: when the status register never shows the halted pattern, ch32_halt_microprocessor
\* returns a value different from RVSWD_OK, and ch32_program does not go on to unlock
\* (nor to anything after it).
C3_HaltTimeoutStopsProgram ==
    /\ (obs.ctl = "halt" /\ obs.ctlTimedOut => ret # RVSWD_OK)
    /\ (entry = "program" /\ InLog("Failed to halt microprocessor") =>
            ~Started("unlock") /\ ~Started("write_flash") /\ ~Started("reset_and_run"))

----------------------------------------------------------------------------
(* C4: the polling budget *)

----------------------------------------------------------------------------
(* C5: transport failures *)

\* C5: in a run of ch32_program, after a register read or write has reported failure
\* no further transport access is performed.
C5_FailureAborts ==
    entry = "program" => ~obs.afterFault

----------------------------------------------------------------------------
(* C6..C10: write_flash *)

\* the target did what it was told: the flash was unlocked and no read was corrupted
FaultFree == Unlocked(target) /\ ~target.flipped

\* C6: on a fault-free target, write_flash of an image of N bytes (N a multiple of 256)
\* at a 256-aligned base performs exactly N / 256 erase + program + verify cycles, blocks
\* ascending, returns success, and leaves the image in the flash; ch32_program then
\* starts reset_and_run.
C6_WriteFlashProgramsImage ==
    /\ WriteFlashReturned /\ FaultFree /\ ~BlockMisaligned(addr) /\ data_len % 256 = 0 =>
          /\ wfLog = Cycles(addr, data_len)
          /\ FlashHoldsImage(addr, data_len)
          /\ (entry = "write_flash" => ret = true)
          /\ (entry = "program" /\ pc # "program_written" => Started("reset_and_run"))

C6_Witness ==
    /\ entry = "program" /\ pc = "done" /\ InLog("Okay!") /\ data_len = 512
    /\ FaultFree /\ Len(wfLog) = 10 /\ FlashHoldsImage(CH32_CODE_BEGIN, 512)

\* C7: the progress callback comes once per block started, right before the block is
\* handed to erase_block, with progress = the block's byte offset (0, 256, ...) and
\* total = the image length.
C7_StatusCallbackPerBlock ==
    \A k \in 1 .. Len(wfLog) :
        /\ wfLog[k][1] = "status" =>
              /\ wfLog[k][2] = 256 * CountEvents("status", k - 1)
              /\ wfLog[k][3] = data_len
              /\ k < Len(wfLog)
              /\ wfLog[k + 1] = <<"erase", addr + wfLog[k][2]>>
        /\ wfLog[k][1] = "erase" =>
              /\ k > 1
              /\ wfLog[k - 1][1] = "status"
              /\ CountEvents("status", k) = CountEvents("erase", k)

C7_Witness ==
    /\ Len(wfLog) >= 7
    /\ wfLog[6] = <<"status", 256, 512>>
    /\ wfLog[7] = <<"erase", addr + 256>>

\* the offset in the image of the data handed to write_flash_block
BlockOffset == IF entry = "write_block" THEN 0 ELSE blk - addr

\* the result of the write_flash_block call that returned last
LastVerified == wfLog # <<>> /\ wfLog[Len(wfLog)][1] = "verified"

\* C8: write_flash_block at a 256-aligned address returns success exactly when the 64
\* words read back equal the 64 words written; on a fault-free, erased flash they are
\* equal and the block holds the data; a read-back word with one bit inverted makes the
\* call fail.
C8_BlockVerified ==
    LastVerified /\ ~BlockMisaligned(blk) /\ Len(rdata) = 64 /\ BlockOffset + 256 <= data_len =>
        /\ (wfLog[Len(wfLog)][3] = true) = (rdata = wdata)
        /\ (pc = "write_flash_written" \/ (entry = "write_block" /\ pc = "done") =>
               ret = wfLog[Len(wfLog)][3])
        /\ wdata = [j \in 1 .. 64 |-> ImageWord(BlockOffset \div 4 + j - 1)]
        /\ (FaultFree /\ (entry = "write_block" => obs.erasedAtStart) =>
               /\ rdata = wdata
               /\ \A j \in 1 .. 64 : target.flash[FlashIndex(Word(blk + 4 * (j - 1)))] = wdata[j])
        /\ (\E j \in 1 .. 64, b \in 0 .. 31 : rdata[j] = FlipBit(wdata[j], b)) =>
               wfLog[Len(wfLog)][3] = false

C8_Witness ==
    /\ entry = "write_block" /\ pc = "done" /\ LastVerified /\ ret = false
    /\ obs.erasedAtStart /\ target.flipped
    /\ rdata[64] = FlipBit(wdata[64], 31)
    /\ \A j \in 1 .. 63 : rdata[j] = wdata[j]

\* C9: once erase_block or write_flash_block has failed for a block, write_flash does
\* nothing more: no callback, no block operation and no transport access follows, the
\* flash (earlier blocks included) stays as it is, and the result is failure.
C9_FailureEndsWriteFlash ==
    [][BlockOperationFailed =>
         /\ wfLog' = wfLog
         /\ queue' = queue
         /\ target' = target
         /\ ret' = false]_vars

C9_Witness ==
    /\ entry = "write_flash" /\ pc = "done" /\ ret = false /\ data_len = 512
    /\ Len(wfLog) = 10 /\ wfLog[10] = <<"verified", addr + 256, false>>
    /\ FlashHoldsImage(addr, 256)

\* C10: write_flash with a base address that is no multiple of 64 returns failure, with
\* no transport access and no callback, whatever the length.
C10_MisalignedBaseRejected ==
    entry = "write_flash" /\ addr % 64 # 0 =>
        /\ ~obs.accessed
        /\ queue = <<>>
        /\ wfLog = <<>>
        /\ pc \in {"write_flash", "done"}
        /\ (pc = "done" => ret = false)

C10_Witness ==
    /\ entry = "write_flash" /\ addr = CH32_CODE_BEGIN + 32 /\ data_len = 512
    /\ pc = "done" /\ ret = false /\ ~obs.accessed

----------------------------------------------------------------------------
(* C11: alignment of the block operations *)

\* C11: erase_flash_block and write_flash_block return failure for every address that
\* is no multiple of 256, without any transport access (no status poll, no register write).
C11_MisalignedBlockRejected ==
    /\ entry \in {"erase", "write_block"} /\ blk % 256 # 0 =>
          /\ ~obs.accessed
          /\ queue = <<>>
          /\ pc \in {entry, "done"}
          /\ (pc = "done" => ret = false)
    /\ obs.op \in {"erase", "write_block"} /\ blk % 256 # 0 =>
          /\ obs.hw = <<>>
          /\ queue = <<>>
          /\ pc \notin {"wait", "wait_check", "wait_write", "wait_write_check"}
    /\ \A k \in 1 .. Len(wfLog) :
          wfLog[k][1] \in {"erased", "verified"} /\ wfLog[k][2] % 256 # 0 => wfLog[k][3] = false

C11_Witness ==
    /\ entry = "write_block" /\ blk = CH32_CODE_BEGIN + 64 /\ pc = "done"
    /\ ret = false /\ ~obs.accessed /\ wfLog = << <<"verified", blk, false>> >>

----------------------------------------------------------------------------
(* C12: ch32_run_debug_code *)

\* word j (from 1) of the program buffer for the caller's code: the code, then zeros
PaddedCodeWord(j) ==
    LET byte(k) == IF k < code_size THEN CodeByte(k) ELSE 0 IN
    <<byte(4 * j - 1) * 256 + byte(4 * j - 2), byte(4 * j - 3) * 256 + byte(4 * j - 4)>>

\* C12: run_debug_code returns failure for a code size above 32 and for an odd code
\* size, writing neither a program-buffer register nor the command register; for an
\* even size up to 32 it writes the eight program-buffer registers 0x20..0x27 in order
\* (the code, then zero padding) and then the run command, and returns success.
C12_RunDebugCodeChecked ==
    entry = "run_debug_code" =>
        IF code_size > 32 \/ code_size % 2 = 1
        THEN /\ ~obs.accessed /\ queue = <<>> /\ obs.hw = <<>>
             /\ (pc = "done" => ret = false)
        ELSE /\ Len(obs.hw) <= 9
             /\ \A j \in 1 .. Len(obs.hw) :
                   obs.hw[j] = IF j <= 8 THEN <<"write", 31 + j, PaddedCodeWord(j)>>
                               ELSE <<"write", 23, <<36, 0>> >>
             /\ (pc = "done" =>
                    /\ ret = true
                    /\ Len(obs.hw) + Len(queue) = 9
                    /\ (queue = <<>> => \A j \in 1 .. 8 : target.progbuf[j] = PaddedCodeWord(j)))

C12_Witness ==
    /\ entry = "run_debug_code" /\ code_size = 6 /\ pc = "done" /\ queue = <<>>
    /\ ret = true /\ Len(obs.hw) = 9
    /\ target.progbuf[2] = <<0, 250 * 256 + 251>> /\ target.progbuf[8] = <<0, 0>>

----------------------------------------------------------------------------
(* C13: what resume polls for *)

\* C13: resume succeeds exactly when the status read that ends its polling shows
\* bits [17:16] equal to 0b11; a status value whose bits [17:16] are not 0b11 never
\* ends the polling with success.
C13_ResumeTestsBits17_16 ==
    entry = "resume" /\ pc = "done" =>
        ((ret = RVSWD_OK) <=> (rval[1] % 4 = 3))

----------------------------------------------------------------------------
(* C14: the unlock sequence *)

\* the k-th memory access of unlock_flash
UnlockAccess(k) ==
    CASE k = 2 -> <<"store", Word(1073881092), <<17767, 291>> >>
      [] k = 3 -> <<"store", Word(1073881092), <<52719, 35243>> >>
      [] k = 4 -> <<"store", Word(1073881096), <<17767, 291>> >>
      [] k = 5 -> <<"store", Word(1073881096), <<52719, 35243>> >>
      [] k = 6 -> <<"store", Word(1073881124), <<17767, 291>> >>
      [] k = 7 -> <<"store", Word(1073881124), <<52719, 35243>> >>
      [] OTHER -> <<"load", Word(1073881104)>>

\* ch32_unlock_flash has returned and nothing has run since
UnlockReturned ==
    \/ entry = "unlock" /\ pc = "done"
    \/ entry = "program" /\ pc = "program_unlocked"

----------------------------------------------------------------------------
(* C15: the waits for the flash controller *)

\* C15: a wait for the flash "not busy" bit gives up after a bounded number of polls
\* (the first read and PollBudget retries, as the other bounded loops), so that
\* erase_block returns even if the busy bit stays set for ever.
C15_FlashWaitBounded ==
    obs.op \in {"erase", "write_block"} /\ pc \in {"wait", "wait_check"} =>
        obs.waitPolls <= PollBudget + 1

----------------------------------------------------------------------------
(* C16: the order of the accesses of write_flash_block *)

\* the k-th memory access of write_flash_block (a wait counts as one access)
BlockAccess(k) ==
    LET status == <<"load", Word(1073881100)>>
        ctlr(v) == <<"store", Word(1073881104), v>>
    IN
    CASE k = 1 -> status
      [] k = 2 -> ctlr(<<1, 0>>)
      [] k = 3 -> <<"store", Word(1073881108), Word(blk)>>
      [] k >= 4 /\ k <= 131 ->
            IF k % 2 = 0 THEN <<"store", Word(blk + 4 * ((k - 4) \div 2)), wdata[(k - 4) \div 2 + 1]>>
            ELSE status
      [] k = 132 -> ctlr(<<33, 0>>)
      [] k = 133 -> status
      [] k = 134 -> ctlr(<<0, 0>>)
      [] OTHER -> <<"load", Word(blk + 4 * (k - 135))>>

\* write_flash_block is running, or has returned and its caller has not gone on
InWriteBlock ==
    /\ obs.op = "write_block"
    /\ \/ entry = "write_block"
       \/ wfLog # <<>> /\ wfLog[Len(wfLog)][1] \in {"program", "verified"}

\* C16: write_flash_block makes the target wait not busy, set fast-program mode, take
\* the block address, then for each of the 64 words in ascending order take the word and
\* wait for write-not-busy, then fast-program + page-start, wait not busy, clear the
\* control register, and only then read the 64 words back; no store is executed while
\* the flash controller is busy.  (The accesses are recorded one at a time and a recorded
\* access never changes, so each is compared when it is the newest.)
C16_BlockAccessOrder ==
    InWriteBlock /\ blk % 256 = 0 =>
        /\ Len(obs.hw) <= 198
        /\ (obs.hw # <<>> => obs.hw[Len(obs.hw)] = BlockAccess(Len(obs.hw)))
        /\ ~obs.storedBusy
        /\ (LastVerified /\ wfLog[Len(wfLog)][2] = blk => Len(obs.hw) = 198)

C16_Witness ==
    /\ entry = "write_flash" /\ pc = "write_flash_written" /\ i = 256 /\ LastVerified
    /\ Len(obs.hw) = 198
    /\ obs.hw[130] = <<"store", Word(blk + 252), wdata[64]>>
    /\ obs.hw[132] = <<"store", Word(CH32_FLASH_CTLR), <<33, 0>> >>
    /\ obs.hw[135] = <<"load", Word(blk)>>

----------------------------------------------------------------------------
(* C17: the writes after the polling of halt and reset_and_run *)

\* the k-th write of the debug-module control register by reset_and_run and by halt
ResetWrite(k) ==
    <<"dmcontrol",
      CASE k \in {1, 2} -> <<32768, 1>>
        [] k = 4 -> <<0, 3>>
        [] k = 6 -> <<4096, 1>>
        [] OTHER -> <<0, 1>> >>

HaltWrite(k) == <<"dmcontrol", IF k <= 2 THEN <<32768, 1>> ELSE <<0, 1>> >>

\* C17: reset_and_run writes 0x00000001, 0x10000001, 0x00000001 to the control register,
\* in this order, only after a status read has shown bits [19:18] = 0b11; when it gives
\* up none of them is written and the last value written stays 0x00000003.  halt writes
\* 0x00000001 only after a status read has shown bits [9:8] = 0b11.
C17_ClearsOnlyAfterStatusSeen ==
    /\ obs.op = "reset_and_run" =>
          /\ Len(obs.hw) <= 7
          /\ \A k \in 1 .. Len(obs.hw) : obs.hw[k] = ResetWrite(k)
          /\ (Len(obs.hw) > 4 => (rval[1] \div 4) % 4 = 3)
          /\ (obs.ctlTimedOut => Len(obs.hw) = 4 /\ queue = <<>>)
          /\ (pc \in {"done", "program_finished"} /\ queue = <<>> /\ ~obs.ctlTimedOut =>
                 Len(obs.hw) = 7)
    /\ obs.op = "halt" =>
          /\ Len(obs.hw) <= 3
          /\ \A k \in 1 .. Len(obs.hw) : obs.hw[k] = HaltWrite(k)
          /\ (Len(obs.hw) > 2 => (rval[2] \div 256) % 4 = 3)
          /\ (obs.ctlTimedOut => Len(obs.hw) = 2 /\ queue = <<>>)

C17_Witness ==
    /\ entry = "reset_and_run" /\ pc = "done" /\ queue = <<>> /\ ret = RVSWD_OK
    /\ Len(obs.hw) = 7 /\ obs.hw[6] = <<"dmcontrol", <<4096, 1>> >> /\ obs.polls = 3

----------------------------------------------------------------------------
(* C18: a base aligned to 64 but not to 256 *)

\* C18: write_flash of a non-empty image at a base that is a multiple of 64 but not of
\* 256 fails at the first block: one callback (progress 0), erase_block rejects the
\* address, no transport access at all, the result is failure.
C18_Base64FailsAtFirstBlock ==
    entry = "write_flash" /\ addr % 64 = 0 /\ addr % 256 # 0 /\ data_len > 0 =>
        /\ ~obs.accessed
        /\ queue = <<>>
        /\ IsPrefix(wfLog, << <<"status", 0, data_len>>, <<"erase", addr>>,
                               <<"erased", addr, false>> >>)
        /\ (pc = "done" => ret = false /\ Len(wfLog) = 3 /\ InLog("Failed to erase FLASH"))

C18_Witness ==
    /\ entry = "write_flash" /\ addr = CH32_CODE_BEGIN + 64 /\ data_len = 512
    /\ pc = "done" /\ ret = false /\ ~obs.accessed /\ Len(wfLog) = 3

----------------------------------------------------------------------------
(* C19: the addresses ch32_program reaches *)

\* The state of ch32_program(firmware 1, len) at the head of the loop of write_flash
\* when k >= 1 blocks have been erased, programmed and verified, on a target that was
\* locked at the start.  With len = 512 and k = 1 it is a state Spec reaches from the
\* call of ch32_program (AfterOneBlockReached); it is used with the first image length
\* that does not fit into the code flash, for which stepping through all blocks from the
\* call on is out of reach.
AfterBlocks(k, len) ==
    LET b == CH32_CODE_BEGIN + 256 * (k - 1)
        word(j) == BytesToWord(FirmwareByte(1, 4 * j), FirmwareByte(1, 4 * j + 1),
                               FirmwareByte(1, 4 * j + 2), FirmwareByte(1, 4 * j + 3))
        w == [j \in 1 .. 64 |-> word(64 * (k - 1) + j - 1)]
        cycle(n) == << <<"status", 256 * n, len>>,
                       <<"erase", CH32_CODE_BEGIN + 256 * n>>,
                       <<"erased", CH32_CODE_BEGIN + 256 * n, true>>,
                       <<"program", CH32_CODE_BEGIN + 256 * n>>,
                       <<"verified", CH32_CODE_BEGIN + 256 * n, true>> >>
    IN
    /\ entry = "program"
    /\ pc = "write_flash_loop"
    /\ stack = <<"program_written">>
    /\ queue = <<>>
    /\ rval = w[64]
    /\ ret = true
    /\ timeout = 0
    /\ addr = CH32_CODE_BEGIN
    /\ data_len = len
    /\ seed = 1
    /\ code_size = 0
    /\ i = 256 * k
    /\ blk = b
    /\ wdata = w
    /\ rdata = w
    /\ wi = 64
    /\ target = [TargetInit(FALSE, FALSE, FALSE, FALSE) EXCEPT
                    !.data0 = w[64],
                    !.progbuf[1] = BytesToWord(ch32_readmem[1], ch32_readmem[2],
                                               ch32_readmem[3], ch32_readmem[4]),
                    !.x10 = w[64],
                    !.x11 = Word(b + 252),
                    !.faddr = Word(b),
                    !.flash = [j \in 1 .. FlashWords |->
                                  IF j <= 64 * k THEN word(j - 1) ELSE OldWord]]
    /\ faultsLeft = 0
    /\ started = <<"init", "reset", "halt", "unlock", "write_flash">>
    /\ log = <<"Microprocessor halted">>
    /\ wfLog = [n \in 1 .. 5 * k |-> cycle((n - 1) \div 5)[((n - 1) % 5) + 1]]
    /\ obs = [ObsInit(FALSE, TRUE) EXCEPT
                 !.accessed = TRUE,
                 !.haltedSeen = TRUE,
                 !.unlockSeen = TRUE,
                 !.op = "write_block",
                 !.hw = [n \in 1 .. 198 |-> BlockAccess(n)],
                 !.readEnd = 256 * k]

\* the state Spec reaches when the first block of a 512-byte image is done
AfterOneBlockReached == AfterBlocks(1, 512)

\* the number of blocks of the code flash, and the first image length beyond it
CodeFlashBlocks == (CH32_CODE_END - CH32_CODE_BEGIN) \div 256
FirstLengthBeyond == CH32_CODE_END - CH32_CODE_BEGIN + 256

\* ch32_program with an image one block longer than the code flash, when the blocks
\* that fit are done; and calls that run the rest of the code
InitLate ==
    \/ AfterBlocks(CodeFlashBlocks, FirstLengthBeyond)
    \/ InitCall("program", 0, 256, 1, TRUE, FALSE, FALSE, FALSE, 0)
    \/ InitCall("resume", 0, 0, 1, TRUE, FALSE, FALSE, FALSE, 0)
    \/ InitCall("run_debug_code", 0, 4, 1, TRUE, FALSE, FALSE, FALSE, 0)

SpecLate == InitLate /\ [][Next]_vars

\* the address lies in the code flash [0x08000000, 0x08004000)
InCodeFlash(w) == w[1] = 2048 /\ w[2] < 16384

\* C19: in every run of ch32_program, whatever the image length, each address written
\* to the flash address register and each word address stored to or loaded from lies in
\* the code flash [0x08000000, 0x08004000), and no block at or beyond 0x08004000 is
\* erased or programmed.
C19_AddressesInsideCodeFlash ==
    entry = "program" =>
        /\ \A k \in 1 .. Len(wfLog) :
              wfLog[k][1] \in {"erase", "program"} =>
                  wfLog[k][2] >= 134217728 /\ wfLog[k][2] < 134234112
        /\ obs.op \in {"erase", "write_block"} /\ obs.hw # <<>> =>
              LET e == obs.hw[Len(obs.hw)] IN
              /\ (e[1] = "store" /\ e[2] = Word(CH32_FLASH_ADDR) => InCodeFlash(e[3]))
              /\ (e[2][1] # CH32_FLASH_STATR \div Half => InCodeFlash(e[2]))

----------------------------------------------------------------------------
(* C20: the bytes write_flash reads *)

\* C20: write_flash reads image bytes at offsets in [0, data_len) only, whatever the
\* length: the 256 bytes handed to write_flash_block for the last block lie inside the
\* caller's image; a write_flash that succeeds has programmed ceil(data_len / 256) blocks.
C20_ReadsInsideImage ==
    entry \in {"write_flash", "program"} =>
        /\ obs.readEnd <= data_len
        /\ (WriteFlashReturned /\ ret = true /\ pc \in {"done", "program_written"} =>
               CountEvents("program", Len(wfLog)) = (data_len + 255) \div 256)
====
